---- MODULE Spec2Model ----
(***************************************************************************)
(* The maintainer-invitation handlers of the registry service              *)
(* (services/registry/handlers/maintainers.js): the route table, the five  *)
(* handlers, the Maintainership records they act on and the responses they *)
(* return.  The storage API and the route decorators live outside the      *)
(* handler file; they are modelled from the specification's contracts.     *)
(***************************************************************************)
EXTENDS Integers, Sequences, FiniteSets, TLC

(* ------------------------------ bounds --------------------------------- *)

\* Mutations explored per behaviour (the logical clock stops here).
MaxClock == 4

\* Decline requests that may be suspended between their read and their write.
MaxInflight == 2

\* Highest page number a caller asks for.
MaxPage == 1

(* ------------------------------ the world ------------------------------ *)

\* Authenticated callers (context.user.name).
Callers == {"alice", "bob", "carol"}

\* Namespaces that resolve.
Namespaces == {"alice", "bob", "carol"}

\* Names a caller may put in the :invitee / :member route parameter.
NamespaceNames == {"bob", "carol", "ghost"}

\* Packages that resolve, and the names a caller may put in the route.
Packages == {"widget"}

PackageNames == {"widget", "nopkg"}

\* The owning namespace of a package reference (the :namespace parameter).
Owner(pkg) == "alice"

\* Namespace membership: every user is a member of the namespace of the same
\* name, and carol is also a member of bob.
Members(ns) == IF ns = "bob" THEN {"bob", "carol"} ELSE IF ns \in Namespaces THEN {ns} ELSE {}

Slots == 1..MaxInflight

Pages == 0..MaxPage

\* Entries per page of getActiveMaintainers.
PageSize == 1

(* ------------------------ responses and errors ------------------------- *)

\* boltzmann's response.error(msg, status)
ResponseError(body, status) == [kind |-> "error", status |-> status, body |-> body, objects |-> <<>>]

\* boltzmann's response.message(msg)
ResponseMessage(body) == [kind |-> "message", status |-> "200", body |-> body, objects |-> <<>>]

\* boltzmann's response.json({objects})
ResponseJson(objects) == [kind |-> "json", status |-> "200", body |-> "objects", objects |-> objects]

\* The handler's promise rejects: an exception leaves the handler.
Thrown(what) == [kind |-> "exception", status |-> "none", body |-> what, objects |-> <<>>]

\* A decline that has read its invitation and awaits the update.
Awaiting == [kind |-> "await", status |-> "none", body |-> "update", objects |-> <<>>]

NoResponse == [kind |-> "none", status |-> "none", body |-> "none", objects |-> <<>>]

\* [err, value] as the handlers destructure it: err is null on success.
NoErr == [code |-> "none", status |-> "none"]

\* A storage call that fails or times out: an error with no domain code.
Unavailable == [code |-> "undefined", status |-> "undefined"]

StorageError(code, status) == [code |-> code, status |-> status]

(* ------------------------------ records -------------------------------- *)

NewRecord(ns, pkg, from, t) ==
  [ns |-> ns, pkg |-> pkg, active |-> TRUE, accepted |-> FALSE,
   created |-> t, modified |-> t, invited_by |-> from]

IsPending(r) == r.active /\ ~r.accepted

IsAccepted(r) == r.active /\ r.accepted

IsDeclined(r) == ~r.active /\ ~r.accepted

IsRemoved(r) == ~r.active /\ r.accepted

PairIds(recs, ns, pkg) == {i \in DOMAIN recs : recs[i].ns = ns /\ recs[i].pkg = pkg}

PendingIds(recs, ns, pkg) == {i \in PairIds(recs, ns, pkg) : IsPending(recs[i])}

AcceptedIds(recs, ns, pkg) == {i \in PairIds(recs, ns, pkg) : IsAccepted(recs[i])}

ActiveIds(recs, ns, pkg) == {i \in PairIds(recs, ns, pkg) : recs[i].active}

MaxOf(S) == CHOOSE i \in S : \A j \in S : j <= i

(* ---------------------- the storage API (contract) --------------------- *)

StorageResult(err, recs, val) == [err |-> err, recs |-> recs, val |-> val]

\* create-if-absent.  alt is the re-invitation policy the specification
\* leaves open: "lenient" answers a repeated invite as a no-op and lets a
\* declined namespace be invited again with a fresh record; any other value
\* is the Conflict-class code a strict storage answers a repeated invite with.
inviteMaintainer(recs, pkg, from, to, t, fault, alt) ==
  IF fault THEN StorageResult(Unavailable, recs, 0)
  ELSE IF to \notin Namespaces THEN StorageResult(StorageError("invite.invitee_dne", "404"), recs, 0)
  ELSE IF pkg \notin Packages THEN StorageResult(StorageError("invite.package_dne", "404"), recs, 0)
  ELSE IF AcceptedIds(recs, to, pkg) # {}
    THEN StorageResult(StorageError("invite.already_accepted", "409"), recs, 0)
  ELSE IF PendingIds(recs, to, pkg) # {}
    THEN IF alt = "lenient"
           THEN StorageResult(NoErr, recs, MaxOf(PendingIds(recs, to, pkg)))
           ELSE StorageResult(StorageError(alt, "409"), recs, 0)
  ELSE IF /\ PairIds(recs, to, pkg) # {}
          /\ IsDeclined(recs[MaxOf(PairIds(recs, to, pkg))])
          /\ alt # "lenient"
    THEN StorageResult(StorageError("invite.already_declined", "409"), recs, 0)
  ELSE StorageResult(NoErr, Append(recs, NewRecord(to, pkg, from, t)), Len(recs) + 1)

MarkingRemoveMaintainer(recs, pkg, from, to, t, fault) ==
  IF fault THEN StorageResult(Unavailable, recs, 0)
  ELSE IF to \notin Namespaces THEN StorageResult(StorageError("invite.invitee_dne", "404"), recs, 0)
  ELSE IF pkg \notin Packages THEN StorageResult(StorageError("invite.package_dne", "404"), recs, 0)
  ELSE IF ActiveIds(recs, to, pkg) = {}
    THEN StorageResult(StorageError("invite.invitee_not_maintainer", "404"), recs, 0)
  ELSE LET id == MaxOf(ActiveIds(recs, to, pkg)) IN
       StorageResult(NoErr, [recs EXCEPT ![id].active = FALSE, ![id].accepted = TRUE,
                                         ![id].modified = t], id)

\* update-if-state-matches: the active record of the pair becomes inactive.
removeMaintainer(recs, pkg, from, to, t, fault) ==
  IF fault THEN StorageResult(Unavailable, recs, 0)
  ELSE IF to \notin Namespaces THEN StorageResult(StorageError("invite.invitee_dne", "404"), recs, 0)
  ELSE IF pkg \notin Packages THEN StorageResult(StorageError("invite.package_dne", "404"), recs, 0)
  ELSE IF ActiveIds(recs, to, pkg) = {}
    THEN StorageResult(StorageError("invite.invitee_not_maintainer", "404"), recs, 0)
  ELSE LET id == MaxOf(ActiveIds(recs, to, pkg)) IN
       StorageResult(NoErr, [recs EXCEPT ![id].active = FALSE, ![id].modified = t], id)

\* update-if-state-matches: the Pending record of the pair becomes Accepted.
acceptMaintainerInvite(recs, pkg, member, bearer, t, fault) ==
  IF fault THEN StorageResult(Unavailable, recs, 0)
  ELSE IF pkg \notin Packages THEN StorageResult(StorageError("invite.package_dne", "404"), recs, 0)
  ELSE IF PendingIds(recs, member, pkg) = {}
    THEN StorageResult(StorageError("invite.invitation_dne", "404"), recs, 0)
  ELSE LET id == MaxOf(PendingIds(recs, member, pkg)) IN
       StorageResult(NoErr, [recs EXCEPT ![id].accepted = TRUE, ![id].modified = t], id)

\* The ids of S in acceptance order (the time the record became Accepted).
RECURSIVE ByAcceptance(_, _)
ByAcceptance(recs, S) ==
  IF S = {} THEN <<>>
  ELSE LET first == CHOOSE i \in S : \A j \in S :
                       \/ recs[i].modified < recs[j].modified
                       \/ recs[i].modified = recs[j].modified /\ i <= j
       IN <<first>> \o ByAcceptance(recs, S \ {first})

\* Every namespace with an Accepted record for the package, in acceptance order.
ActiveMaintainers(recs, pkg) ==
  LET ids == ByAcceptance(recs, {i \in DOMAIN recs : recs[i].pkg = pkg /\ IsAccepted(recs[i])})
  IN [k \in 1..Len(ids) |-> recs[ids[k]].ns]

PageOf(seq, page) ==
  LET lo == page * PageSize + 1
      hi == IF (page + 1) * PageSize < Len(seq) THEN (page + 1) * PageSize ELSE Len(seq)
  IN SubSeq(seq, lo, hi)

\* paginated query by (package, accepted=true, active=true).
getActiveMaintainers(recs, pkg, page, fault) ==
  IF fault THEN StorageResult(Unavailable, recs, <<>>)
  ELSE IF pkg \notin Packages THEN StorageResult(StorageError("package_dne", "404"), recs, <<>>)
  ELSE StorageResult(NoErr, recs, PageOf(ActiveMaintainers(recs, pkg), page))

(* ------------------------------ handlers ------------------------------- *)

\* What one run of a handler leaves behind: the records, the response, the
\* event given to context.logger.info, the error the storage call gave, the
\* number of storage calls issued and the record the handler acted on.
Outcome(recs, res, event, err, calls, id) ==
  [recs |-> recs, res |-> res, event |-> event, err |-> err, calls |-> calls, id |-> id]

\* A decorator that answers the request itself: the handler never runs.
ShortCircuit(recs, res) == Outcome(recs, res, "none", NoErr, 0, 0)

findInvitee(recs, invitee, next) ==
  IF invitee \in Namespaces THEN next
  ELSE ShortCircuit(recs, ResponseError("invitee not found", "404"))

canWrite(recs, caller, pkg, next) ==
  IF caller \in Members(Owner(pkg)) THEN next
  ELSE ShortCircuit(recs, ResponseError("cannot write package", "403"))

packageExists(recs, pkg, next) ==
  IF pkg \in Packages THEN next
  ELSE ShortCircuit(recs, ResponseError("package not found", "404"))

isNamespaceMember(recs, caller, member, next) ==
  IF caller \in Members(member) THEN next
  ELSE ShortCircuit(recs, ResponseError("not a member", "403"))

\* The message table of invite; codes it does not list get the generic text.
InviteMsg(code) ==
  IF code \in {"invite.invitee_dne", "invite.package_dne",
               "invite.already_accepted", "invite.already_declined"}
    THEN code ELSE "caught error inviting"

RemoveMsg(code) ==
  IF code \in {"invite.invitee_dne", "invite.invitee_not_maintainer", "invite.package_dne",
               "invite.already_accepted", "invite.already_declined"}
    THEN code ELSE "caught error inviting"

maintainers(recs, pkg, page, fault) ==
  LET r == getActiveMaintainers(recs, pkg, 0, fault) IN
  IF r.err # NoErr
    THEN IF r.err.status = "404"
           THEN Outcome(r.recs, ResponseError("does not exist", "404"), "none", r.err, 1, 0)
           ELSE Outcome(r.recs, ResponseError("caught error fetching maintainers", "500"),
                        "error", r.err, 1, 0)
    ELSE Outcome(r.recs, Thrown("ReferenceError: objects is not defined"), "none", r.err, 1, 0)

IgnoringInvite(recs, caller, pkg, invitee, t, fault, alt) ==
  LET r == inviteMaintainer(recs, pkg, caller, invitee, t, fault, alt) IN
  Outcome(r.recs, ResponseMessage("invited"), "invited", r.err, 1, r.val)

invite(recs, caller, pkg, invitee, t, fault, alt) ==
  LET r == inviteMaintainer(recs, pkg, caller, invitee, t, fault, alt) IN
  IF r.err # NoErr
    THEN Outcome(r.recs, ResponseError(InviteMsg(r.err.code), r.err.code), "none", r.err, 1, 0)
    ELSE Outcome(r.recs, ResponseMessage("invited"), "invited", r.err, 1, r.val)

IgnoringRemove(recs, caller, pkg, invitee, t, fault) ==
  LET r == removeMaintainer(recs, pkg, caller, invitee, t, fault) IN
  Outcome(r.recs, ResponseMessage("removed"), "removed", r.err, 1, r.val)

remove(recs, caller, pkg, invitee, t, fault) ==
  LET r == removeMaintainer(recs, pkg, caller, invitee, t, fault) IN
  IF r.err # NoErr
    THEN Outcome(r.recs, ResponseError(RemoveMsg(r.err.code), r.err.code), "none", r.err, 1, 0)
    ELSE Outcome(r.recs, ResponseMessage("removed"), "removed", r.err, 1, r.val)

accept(recs, caller, pkg, member, t, fault) ==
  LET r == acceptMaintainerInvite(recs, pkg, member, caller, t, fault) IN
  Outcome(r.recs, ResponseMessage("accepted"), "accepted", r.err, 1, r.val)

CrossPairDeclineGet(recs, pkg, member, fault) ==
  LET ids == {i \in DOMAIN recs : recs[i].pkg = pkg /\ IsPending(recs[i])} IN
  IF fault \/ Cardinality(ids) > 1
    THEN Outcome(recs, Thrown("get rejected"), "none", Unavailable, 1, 0)
  ELSE IF ids = {}
    THEN Outcome(recs, ResponseError("invitation not found", "404"), "none", NoErr, 1, 0)
  ELSE Outcome(recs, Awaiting, "none", NoErr, 1, MaxOf(ids))

\* decline, up to its first suspension: Maintainer.objects.get(...).
declineGet(recs, pkg, member, fault) ==
  LET ids == PendingIds(recs, member, pkg) IN
  IF fault \/ Cardinality(ids) > 1
    THEN Outcome(recs, Thrown("get rejected"), "none", Unavailable, 1, 0)
  ELSE IF ids = {}
    THEN Outcome(recs, ResponseError("invitation not found", "404"), "none", NoErr, 1, 0)
  ELSE Outcome(recs, Awaiting, "none", NoErr, 1, MaxOf(ids))

DeletingDeclineUpdate(recs, id, t, fault) ==
  IF fault
    THEN Outcome(recs, Thrown("update rejected"), "none", Unavailable, 2, id)
    ELSE Outcome(SubSeq(recs, 1, id - 1) \o SubSeq(recs, id + 1, Len(recs)),
                 ResponseMessage("declined"), "declined", NoErr, 2, id)

ReactivatingDeclineUpdate(recs, id, t, fault) ==
  IF fault
    THEN Outcome(recs, Thrown("update rejected"), "none", Unavailable, 2, id)
    ELSE Outcome([recs EXCEPT ![id].modified = t, ![id].active = TRUE],
                 ResponseMessage("declined"), "declined", NoErr, 2, id)

\* decline, resumed: Maintainer.objects.filter({id}).update(...), log, reply.
declineUpdate(recs, id, t, fault) ==
  IF fault
    THEN Outcome(recs, Thrown("update rejected"), "none", Unavailable, 2, id)
    ELSE Outcome([recs EXCEPT ![id].modified = t, ![id].active = FALSE],
                 ResponseMessage("declined"), "declined", NoErr, 2, id)

(* ----------------------------- route table ----------------------------- *)

RouteInvite(recs, caller, pkg, invitee, t, fault, alt) ==
  findInvitee(recs, invitee, canWrite(recs, caller, pkg,
    invite(recs, caller, pkg, invitee, t, fault, alt)))

RouteRemove(recs, caller, pkg, invitee, t, fault) ==
  findInvitee(recs, invitee, canWrite(recs, caller, pkg,
    remove(recs, caller, pkg, invitee, t, fault)))

UngatedRouteAccept(recs, caller, pkg, member, t, fault) ==
  packageExists(recs, pkg, accept(recs, caller, pkg, member, t, fault))

RouteAccept(recs, caller, pkg, member, t, fault) ==
  packageExists(recs, pkg, isNamespaceMember(recs, caller, member,
    accept(recs, caller, pkg, member, t, fault)))

UngatedRouteDecline(recs, caller, pkg, member, fault) ==
  packageExists(recs, pkg, declineGet(recs, pkg, member, fault))

RouteDecline(recs, caller, pkg, member, fault) ==
  packageExists(recs, pkg, isNamespaceMember(recs, caller, member,
    declineGet(recs, pkg, member, fault)))

(* ------------------------------- state --------------------------------- *)

VARIABLES
  records,   \* the Maintainership table: record id -> record
  now,       \* the clock read by a mutation
  decl,      \* decline requests suspended between read and update
  last       \* the request completed last: inputs, records before, outcome

vars == <<records, now, decl, last>>

Idle == [st |-> "idle", caller |-> "none", member |-> "none", pkg |-> "none", id |-> 0]

Inflight == {s \in Slots : decl[s].st = "read"}

Completed(op, caller, ns, pkg, page, pre, o) ==
  [op |-> op, caller |-> caller, ns |-> ns, pkg |-> pkg, page |-> page, pre |-> pre, t |-> now,
   res |-> o.res, event |-> o.event, err |-> o.err, calls |-> o.calls, id |-> o.id]

Tick(recs) == IF recs # records THEN now + 1 ELSE now

\* Room on the clock for this request and for every suspended decline.
Room == now + Cardinality(Inflight) < MaxClock

Init ==
  /\ records = <<>>
  /\ now = 0
  /\ decl = [s \in Slots |-> Idle]
  /\ last = Completed("none", "none", "none", "none", 0, <<>>, ShortCircuit(<<>>, NoResponse))

Invite(caller, pkg, invitee, fault, alt) ==
  /\ Room
  /\ LET o == RouteInvite(records, caller, pkg, invitee, now, fault, alt) IN
       /\ records' = o.recs
       /\ now' = Tick(o.recs)
       /\ last' = Completed("invite", caller, invitee, pkg, 0, records, o)
  /\ UNCHANGED decl

Remove(caller, pkg, invitee, fault) ==
  /\ Room
  /\ LET o == RouteRemove(records, caller, pkg, invitee, now, fault) IN
       /\ records' = o.recs
       /\ now' = Tick(o.recs)
       /\ last' = Completed("remove", caller, invitee, pkg, 0, records, o)
  /\ UNCHANGED decl

Accept(caller, pkg, member, fault) ==
  /\ Room
  /\ LET o == RouteAccept(records, caller, pkg, member, now, fault) IN
       /\ records' = o.recs
       /\ now' = Tick(o.recs)
       /\ last' = Completed("accept", caller, member, pkg, 0, records, o)
  /\ UNCHANGED decl

Maintainers(pkg, page, fault) ==
  /\ LET o == maintainers(records, pkg, page, fault) IN
       /\ records' = o.recs
       /\ last' = Completed("maintainers", "none", "none", pkg, page, records, o)
  /\ UNCHANGED <<now, decl>>

DeclineRead(s, caller, pkg, member, fault) ==
  /\ Room
  /\ decl[s].st = "idle"
  /\ LET o == RouteDecline(records, caller, pkg, member, fault) IN
       IF o.res = Awaiting
         THEN /\ decl' = [decl EXCEPT ![s] = [st |-> "read", caller |-> caller,
                                              member |-> member, pkg |-> pkg, id |-> o.id]]
              /\ UNCHANGED last
         ELSE /\ last' = Completed("decline", caller, member, pkg, 0, records, o)
              /\ UNCHANGED decl
  /\ UNCHANGED <<records, now>>

WaitingDeclineWrite(s, fault) ==
  /\ decl[s].st = "read"
  /\ IsPending(records[decl[s].id])
  /\ LET o == declineUpdate(records, decl[s].id, now, fault) IN
       /\ records' = o.recs
       /\ now' = Tick(o.recs)
       /\ last' = Completed("decline", decl[s].caller, decl[s].member, decl[s].pkg, 0, records, o)
  /\ decl' = [decl EXCEPT ![s] = Idle]

DeclineWrite(s, fault) ==
  /\ decl[s].st = "read"
  /\ LET o == declineUpdate(records, decl[s].id, now, fault) IN
       /\ records' = o.recs
       /\ now' = Tick(o.recs)
       /\ last' = Completed("decline", decl[s].caller, decl[s].member, decl[s].pkg, 0, records, o)
  /\ decl' = [decl EXCEPT ![s] = Idle]

InviteAlts == {"lenient", "invite.already_accepted", "invite.already_declined"}

Next ==
  \/ \E c \in Callers, p \in PackageNames, n \in NamespaceNames, f \in BOOLEAN, a \in InviteAlts :
       Invite(c, p, n, f, a)
  \/ \E c \in Callers, p \in PackageNames, n \in NamespaceNames, f \in BOOLEAN :
       Remove(c, p, n, f)
  \/ \E c \in Callers, p \in PackageNames, n \in NamespaceNames, f \in BOOLEAN :
       Accept(c, p, n, f)
  \/ \E p \in PackageNames, g \in Pages, f \in BOOLEAN :
       Maintainers(p, g, f)
  \/ \E s \in Slots, c \in Callers, p \in PackageNames, n \in NamespaceNames, f \in BOOLEAN :
       DeclineRead(s, c, p, n, f)
  \/ \E s \in Slots, f \in BOOLEAN :
       DeclineWrite(s, f)

Spec == Init /\ [][Next]_vars

\* Every awaited storage call settles: it answers, fails or times out, and
\* the suspended handler is resumed.
Fairness == \A s \in Slots : WF_vars(\E f \in BOOLEAN : DeclineWrite(s, f))

FairSpec == Spec /\ Fairness

TypeOK ==
  /\ now \in 0..(MaxClock + MaxInflight)
  /\ \A i \in DOMAIN records : records[i].ns \in Namespaces /\ records[i].pkg \in Packages

(* ------------------------------- claims -------------------------------- *)

Range(seq) == {seq[k] : k \in DOMAIN seq}

\* The Conflict-class codes of the error taxonomy.
ConflictCodes == {"invite.already_accepted", "invite.already_declined"}

InvitationNotFound == ResponseError("invitation not found", "404")

InviteeNotMaintainer == ResponseError("invite.invitee_not_maintainer", "invite.invitee_not_maintainer")

Forbidden(res) == res.kind = "error" /\ res.status = "403"

\* C1: a (namespace, package) pair never has more than one Pending record,
\* and an Invite issued while the pair already has a Pending record creates
\* no record: it changes nothing, and when storage answers it the reply is
\* either the success message (a no-op) or a Conflict-class error.
C1_AtMostOnePending ==
  /\ \A n \in Namespaces, p \in Packages : Cardinality(PendingIds(records, n, p)) <= 1
  /\ (last.op = "invite" /\ PendingIds(last.pre, last.ns, last.pkg) # {})
       => /\ records = last.pre
          /\ (last.calls = 1 /\ last.err # Unavailable)
               => \/ last.res.kind = "message"
                  \/ last.res.kind = "error" /\ last.res.status \in ConflictCodes

C1_Witness ==
  /\ last.op = "invite"
  /\ PendingIds(last.pre, last.ns, last.pkg) # {}
  /\ last.calls = 1
  /\ last.res.kind = "error"
  /\ Len(records) >= 2

\* C2: an Accept by a member of the namespace, on an existing package, for
\* a pair with no Pending record fails with InvitationNotFound and changes
\* no record.
C2_AcceptNeedsPending ==
  (/\ last.op = "accept"
   /\ last.caller \in Members(last.ns)
   /\ last.pkg \in Packages
   /\ PendingIds(last.pre, last.ns, last.pkg) = {})
    => /\ last.res.kind = "error"
       /\ last.res.kind # "message"
       /\ records = last.pre

\* C3 as stated: a Decline invoked on an existing package while the pair has
\* no Pending record fails with InvitationNotFound whoever the caller is,
\* members of the namespace or not, and changes no record.
C3_DeclineAnyCaller ==
  (/\ last.op = "decline"
   /\ last.calls <= 1
   /\ last.pkg \in Packages
   /\ last.err = NoErr
   /\ PendingIds(last.pre, last.ns, last.pkg) = {})
    => /\ last.res = InvitationNotFound
       /\ records = last.pre

\* C3 amended: such a Decline changes no record; it fails with
\* InvitationNotFound when the caller is a member of the namespace, and with
\* the authorization failure of the membership check when the caller is not.
C3_DeclineByMember ==
  (/\ last.op = "decline"
   /\ last.calls <= 1
   /\ last.pkg \in Packages
   /\ last.err = NoErr
   /\ PendingIds(last.pre, last.ns, last.pkg) = {})
    => /\ records = last.pre
       /\ last.caller \in Members(last.ns) => last.res = InvitationNotFound
       /\ last.caller \notin Members(last.ns) => Forbidden(last.res) /\ last.calls = 0

C3_Witness ==
  /\ last.op = "decline"
  /\ last.pkg \in Packages
  /\ last.caller \in Members(last.ns)
  /\ last.caller # last.ns
  /\ PendingIds(last.pre, last.ns, last.pkg) = {}
  /\ last.pre # <<>>
  /\ last.res = InvitationNotFound

AcceptedRightAfterInvite(recs, n, p) ==
  /\ Cardinality(PairIds(recs, n, p)) = 1
  /\ LET r == recs[MaxOf(PairIds(recs, n, p))] IN
       IsAccepted(r) /\ r.modified = r.created + 1

\* C5: when a pair with no earlier record is invited and the next write is
\* the Accept of a member that storage answers, the pair has exactly one
\* record and it is Accepted; and a ListActiveMaintainers of the package
\* that storage answers then returns a list in which the namespace appears
\* (on the page that holds it).
C5_InviteAcceptList ==
  /\ (/\ last.op = "accept"
      /\ last.caller \in Members(last.ns)
      /\ last.err = NoErr
      /\ Cardinality(PairIds(last.pre, last.ns, last.pkg)) = 1
      /\ PendingIds(last.pre, last.ns, last.pkg) # {}
      /\ last.pre[MaxOf(PairIds(last.pre, last.ns, last.pkg))].created + 1 = last.t)
       => AcceptedRightAfterInvite(records, last.ns, last.pkg)
  /\ \A n \in Namespaces :
       (/\ last.op = "maintainers"
        /\ last.err = NoErr
        /\ AcceptedRightAfterInvite(records, n, last.pkg)
        /\ n \in Range(PageOf(ActiveMaintainers(records, last.pkg), last.page)))
         => last.res.kind = "json" /\ n \in Range(last.res.objects)

\* The namespace was a maintainer of the package and has been removed: its
\* latest record is Removed and no record of the pair is active.
AcceptedThenRemoved(recs, n, p) ==
  /\ PairIds(recs, n, p) # {}
  /\ IsRemoved(recs[MaxOf(PairIds(recs, n, p))])
  /\ ActiveIds(recs, n, p) = {}

C7_ListReturnsPage ==
  (/\ last.op = "maintainers"
   /\ last.pkg \in Packages
   /\ last.err = NoErr)
    => last.res = ResponseJson(PageOf(ActiveMaintainers(records, last.pkg), last.page))

\* The authorization predicate of the request handled last is false.
Unauthorized ==
  \/ last.op \in {"invite", "remove"} /\ last.caller \notin Members(Owner(last.pkg))
  \/ last.op \in {"accept", "decline"} /\ last.caller \notin Members(last.ns)

TableAccept(f) ==
  IF f.active /\ ~f.accepted
    THEN [active |-> TRUE, accepted |-> TRUE, ok |-> TRUE]
    ELSE [active |-> f.active, accepted |-> f.accepted, ok |-> FALSE]

TableRemove(f) ==
  IF f.active
    THEN [active |-> FALSE, accepted |-> f.accepted, ok |-> TRUE]
    ELSE [active |-> f.active, accepted |-> f.accepted, ok |-> FALSE]

\* An Accept and a Remove, with the results the callers got, leave a record
\* that started as f0 as f1: some serial order of the two explains both.
Serializable(f0, acceptOk, removeOk, f1) ==
  \/ LET a == TableAccept(f0)
         r == TableRemove(a)
     IN a.ok = acceptOk /\ r.ok = removeOk
        /\ r.active = f1.active /\ r.accepted = f1.accepted
  \/ LET r == TableRemove(f0)
         a == TableAccept(r)
     IN a.ok = acceptOk /\ r.ok = removeOk
        /\ a.active = f1.active /\ a.accepted = f1.accepted

\* An Accept and a Remove of one pair answered by storage one right after
\* the other, against an active record of the pair, in either order.
AcceptRemovePair(a, b) ==
  /\ {a.op, b.op} = {"accept", "remove"}
  /\ a.ns = b.ns /\ a.pkg = b.pkg
  /\ a.calls = 1 /\ b.calls = 1
  /\ a.err # Unavailable /\ b.err # Unavailable
  /\ ActiveIds(a.pre, a.ns, a.pkg) # {}

\* C9: an Accept and a Remove racing for the same Pending or Accepted
\* record leave it in the state, and give their callers the results, of one
\* of the two serial orders.
C9_AcceptRemoveSerializable ==
  [][AcceptRemovePair(last, last')
       => LET id == MaxOf(ActiveIds(last.pre, last.ns, last.pkg))
              acc == IF last.op = "accept" THEN last ELSE last'
              rem == IF last.op = "remove" THEN last ELSE last'
          IN Serializable(last.pre[id], acc.res.kind = "message",
                          rem.res.kind = "message", records'[id])]_vars

\* C10: a Decline that returns success has applied its update to a record
\* that was still Pending when the update was written; so of two Declines
\* of one Pending record at most one succeeds.
C10_DeclineWritesPending ==
  (last.op = "decline" /\ last.res.kind = "message")
    => IsPending(last.pre[last.id])

\* The change of one record from a to b is a transition of the table made
\* by the operation op.
TableTransition(op, a, b) ==
  \/ op = "accept" /\ IsPending(a) /\ IsAccepted(b)
  \/ op = "decline" /\ IsPending(a) /\ ~b.active /\ ~b.accepted
  \/ op = "remove" /\ a.active /\ ~b.active /\ b.accepted = a.accepted

\* C11: every change of a record is a transition of the table made by the
\* operation the table names; a record that is inactive (Declined or
\* Removed) is never changed again, and an Invite changes no existing
\* record: what it adds is a new Pending record.
C11_OnlyTableTransitions ==
  /\ \A id \in DOMAIN last.pre :
       records[id] # last.pre[id]
         => /\ last.pre[id].active
            /\ TableTransition(last.op, last.pre[id], records[id])
  /\ \A id \in DOMAIN records \ DOMAIN last.pre :
       last.op = "invite" /\ IsPending(records[id])

\* C12: a Decline that returns success has changed exactly the Pending
\* record of its pair: active becomes false, modified the time of the
\* write, nothing else changes, and the record is Declined.
C12_DeclineFrame ==
  (last.op = "decline" /\ last.res.kind = "message")
    => /\ last.id \in PendingIds(last.pre, last.ns, last.pkg)
       /\ records = [last.pre EXCEPT ![last.id].active = FALSE, ![last.id].modified = last.t]
       /\ IsDeclined(records[last.id])
       /\ ~records[last.id].accepted

\* The failure kind a response carries, as the error taxonomy names it;
\* "ok" for a success, "none" for a reply outside the taxonomy.  The generic
\* error of invite and remove, whose status is the undefined err.code of a
\* failed call, is read in the claims' favour as the generic internal failure.
FailureKind(res) ==
  IF res.kind \in {"message", "json"} THEN "ok"
  ELSE IF res.kind # "error" THEN "none"
  ELSE IF res.status = "403" THEN "Unauthorized"
  ELSE IF res.status \in {"500", "undefined"} THEN "StorageUnavailable"
  ELSE IF res.status = "404" /\ res.body \in {"package not found", "does not exist"}
    THEN "PackageNotFound"
  ELSE IF res.status = "404" /\ res.body = "invitee not found" THEN "InviteeNotFound"
  ELSE IF res.status = "404" /\ res.body = "invitation not found" THEN "InvitationNotFound"
  ELSE IF res.status = "invite.package_dne" THEN "PackageNotFound"
  ELSE IF res.status = "invite.invitee_dne" THEN "InviteeNotFound"
  ELSE IF res.status = "invite.invitee_not_maintainer" THEN "InviteeNotMaintainer"
  ELSE IF res.status = "invite.already_accepted" THEN "AlreadyAccepted"
  ELSE IF res.status = "invite.already_declined" THEN "AlreadyDeclined"
  ELSE "none"

FailureKinds ==
  {"PackageNotFound", "InviteeNotFound", "InvitationNotFound", "InviteeNotMaintainer",
   "AlreadyAccepted", "AlreadyDeclined", "Unauthorized", "StorageUnavailable"}

\* C13: an operation whose storage call fails or times out returns the
\* StorageUnavailable failure (not a success, not an exception) and has
\* issued the failed call once: one call, or two for a Decline whose read
\* answered and whose update failed.
C13_StorageFailureSurfaces ==
  last.err = Unavailable
    => /\ FailureKind(last.res) = "StorageUnavailable"
       /\ last.calls <= IF last.op = "decline" THEN 2 ELSE 1

\* C14: every completed operation returns a success or a failure whose kind
\* is one of the eight of the error taxonomy.
C14_ClosedFailureSet ==
  last.op # "none" => FailureKind(last.res) \in FailureKinds \cup {"ok"}

AlreadyAccepted == ResponseError("invite.already_accepted", "invite.already_accepted")

\* C15: an Invite for a pair that has an Accepted record returns an error,
\* emits no event, creates no record and changes none; when the caller may
\* write the package and storage answers, the error is AlreadyAccepted.
C15_InviteAlreadyAccepted ==
  (last.op = "invite" /\ AcceptedIds(last.pre, last.ns, last.pkg) # {})
    => /\ last.res.kind = "error"
       /\ last.event = "none"
       /\ records = last.pre
       /\ (last.caller \in Members(Owner(last.pkg)) /\ last.err # Unavailable)
            => last.res = AlreadyAccepted

C15_Witness ==
  /\ last.op = "invite"
  /\ AcceptedIds(last.pre, last.ns, last.pkg) # {}
  /\ last.res = AlreadyAccepted
  /\ IsAccepted(records[MaxOf(PairIds(records, last.ns, last.pkg))])

\* The records of one pair, in the order of their creation.
Own(recs, n, p) ==
  LET OfPair(r) == r.ns = n /\ r.pkg = p IN SelectSeq(recs, OfPair)

\* The request handled last, run against the records of its own pair alone,
\* gives some outcome with the same response and the same records of the pair.
AloneAgrees ==
  LET own == Own(last.pre, last.ns, last.pkg)
      Same(o) == o.res = last.res /\ o.recs = Own(records, last.ns, last.pkg)
  IN CASE last.op = "invite" ->
            \E f \in BOOLEAN, a \in InviteAlts :
              Same(RouteInvite(own, last.caller, last.pkg, last.ns, last.t, f, a))
       [] last.op = "remove" ->
            \E f \in BOOLEAN :
              Same(RouteRemove(own, last.caller, last.pkg, last.ns, last.t, f))
       [] last.op = "accept" ->
            \E f \in BOOLEAN :
              Same(RouteAccept(own, last.caller, last.pkg, last.ns, last.t, f))
       [] last.op = "decline" /\ last.calls <= 1 ->
            \E f \in BOOLEAN :
              Same(RouteDecline(own, last.caller, last.pkg, last.ns, f))
       [] OTHER -> TRUE

\* C16: an operation on one pair leaves the records of every other pair as
\* they were, adds no record to another pair, and returns the response and
\* leaves the records of its pair that it gives when the pair's records are
\* the only ones in the table.
C16_PairsIndependent ==
  last.op \in {"invite", "remove", "accept", "decline"}
    => /\ \A id \in DOMAIN records :
            (records[id].ns # last.ns \/ records[id].pkg # last.pkg)
              => id \in DOMAIN last.pre /\ records[id] = last.pre[id]
       /\ AloneAgrees

C16_Witness ==
  /\ last.op = "decline"
  /\ last.res.kind = "message"
  /\ records # last.pre
  /\ \E id \in DOMAIN last.pre :
       last.pre[id].ns # last.ns /\ IsPending(last.pre[id]) /\ records[id] = last.pre[id]

\* What identifies a record: its pair, who invited and when.
Identity(r) == [ns |-> r.ns, pkg |-> r.pkg, created |-> r.created, invited_by |-> r.invited_by]

\* C17: no operation deletes a record: every record that existed before the
\* request handled last is still in the table, under the same id and with
\* the same identity.
C17_NeverDeleted ==
  /\ Len(records) >= Len(last.pre)
  /\ \A id \in DOMAIN last.pre :
       id \in DOMAIN records /\ Identity(records[id]) = Identity(last.pre[id])

C17_Witness ==
  /\ last.op \in {"decline", "remove"}
  /\ last.res.kind = "message"
  /\ records # last.pre
  /\ Len(records) = Len(last.pre)
  /\ ~records[last.id].active

RemovedPending ==
  /\ last.op = "remove"
  /\ last.res.kind = "message"
  /\ last.id \in PendingIds(last.pre, last.ns, last.pkg)

Informational == {"invited", "accepted", "declined", "removed"}

\* C20: an informational event is emitted only for a transition that was
\* made: "accepted" for a record taken from Pending to Accepted, "declined"
\* and "removed" for a Pending / an active record made inactive, "invited"
\* for a Pending record of the pair; and an operation that does not return
\* the success message emits none of them.
C20_EventAfterCommit ==
  /\ last.event = "accepted"
       => /\ last.id \in PendingIds(last.pre, last.ns, last.pkg)
          /\ IsAccepted(records[last.id])
  /\ last.event = "declined"
       => /\ last.id \in PendingIds(last.pre, last.ns, last.pkg)
          /\ ~records[last.id].active
  /\ last.event = "removed"
       => /\ last.id \in ActiveIds(last.pre, last.ns, last.pkg)
          /\ ~records[last.id].active
  /\ last.event = "invited"
       => last.id \in PendingIds(records, last.ns, last.pkg)
  /\ last.res.kind # "message" => last.event \notin Informational

====
